---------------------------- MODULE Spec2Model ----------------------------
(***************************************************************************)
(* Model of the authentication API of src/api/views.py:                    *)
(*   RegisterUserView.post, LoginUserView.post and SecureApiView.get,      *)
(* served by a pool of workers that handle requests concurrently.          *)
(*                                                                         *)
(* The Credential Store is django.contrib.auth's User table (unique        *)
(* username, auto-increment id, hashed password); the Token Issuer is      *)
(* rest_framework_simplejwt.  A registration is modelled statement by      *)
(* statement (exists() query, create_user INSERT, save() UPDATE) because   *)
(* these are separate store round trips that other requests interleave     *)
(* with.  Login and the guarded GET touch shared state once, so each is    *)
(* one step.                                                               *)
(***************************************************************************)
EXTENDS Integers, Sequences, FiniteSets, TLC

\* ------------------------------------------------------------------ bounds
NumWorkers == 2       \* concurrent request handlers
MaxTokens  == 2       \* successful logins in one behaviour
MaxTime    == 1       \* clock ticks in one behaviour

\* ------------------------------------------------------- token lifetimes
AccessLifetime  == 1  \* issuer-defined expiry of an access token, in ticks
RefreshLifetime == 2  \* issuer-defined expiry of a refresh token, in ticks

\* ------------------------------------------------------------ input values
NONE == "None"        \* request.data.get(key) of a key that is absent

\* A user name in a Unicode compatibility form (full-width letters
\* U+FF41 U+FF4C U+FF49 U+FF43 U+FF45) whose NFKC form is "alice".
AliceFullWidth == "alice(fullwidth)"

Usernames == {NONE, "", "alice", AliceFullWidth, "bob"}
Passwords == {NONE, "", "pw1", "wrong"}
Emails    == {NONE, "", "a@X.com"}

Workers == 1..NumWorkers

\* ------------------------------------------------------- values of the API
NoUser  == [id |-> 0, username |-> "", password |-> <<>>, email |-> ""]
NoToken == [typ |-> "none", uid |-> 0, jti |-> 0, exp |-> 0, sig |-> "none"]
Garbage == [typ |-> "garbage", uid |-> 0, jti |-> 0, exp |-> 0, sig |-> "none"]

NoReq  == [kind |-> "none", username |-> NONE, password |-> NONE,
           email |-> NONE, token |-> NoToken]
NoResp == [status |-> 0, body |-> "", token |-> NoToken]
NoMeta == [lookups |-> 0, mints |-> 0, ran |-> FALSE]

Response(st, b) == [status |-> st, body |-> b, token |-> NoToken]

VARIABLES
    store,      \* the Credential Store: the set of rows of the user table
    nextId,     \* the table's auto-increment primary key
    clock,      \* the Token Issuer's current time
    nextJti,    \* source of fresh token identifiers (uuid4 in the issuer)
    pc,         \* pc[w]: where worker w is in its handler
    req,        \* req[w]: the request worker w is handling
    user,       \* user[w]: the local variable `user` of RegisterUserView.post
    resp,       \* resp[w]: the response worker w returned
    meta,       \* meta[w]: history of w's request (number, store reads, mints)
    returned,   \* history: the tokens returned by logins, in order
    minted,     \* history: every token the issuer minted, with the login's input
    acked       \* history: the name and secret of each registration answered 201

vars == <<store, nextId, clock, nextJti, pc, req, user, resp, meta,
          returned, minted, acked>>

\* ---------------------------------------------------- Credential Store
\* `not x` of Python for the values request.data.get yields here.
Falsy(x) == x = NONE \/ x = ""

\* AbstractBaseUser.normalize_username: unicodedata.normalize("NFKC", name).
normalize_username(u) == IF u = AliceFullWidth THEN "alice" ELSE u

\* BaseUserManager.normalize_email: the domain part is lower-cased.
normalize_email(e) == IF e = "a@X.com" THEN "a@x.com" ELSE e

\* make_password / check_password: a one-way encoding, verified by re-encoding.
make_password(raw) == <<"pbkdf2_sha256", raw>>
check_password(raw, encoded) == encoded = make_password(raw)

\* User.objects.filter(username=u).exists(): exact match on the stored name.
exists(st, u) == \E r \in st : r.username = u

\* User.objects.filter(username=u).first(): the row, or None.
first(st, u) ==
    IF \E r \in st : r.username = u
    THEN CHOOSE r \in st : r.username = u /\ \A q \in st : q.username = u => r.id <= q.id
    ELSE NoUser

\* The row create_user builds: name and e-mail normalised, password hashed.
new_user(id, u, p, e) ==
    [id |-> id, username |-> normalize_username(u),
     password |-> make_password(p), email |-> normalize_email(e)]

\* Faulty variant: a user table without the UNIQUE constraint on username.
unique_violation_unchecked(st, row) == FALSE

\* The INSERT of create_user violates the UNIQUE constraint on username
\* (IntegrityError) when a row already holds the normalised name.
unique_violation(st, row) == \E r \in st : r.username = row.username

\* Faulty variant: a save that rewrites the table instead of one row.
save_overwriting(st, row) == {row}

\* user.save() on a row that has a primary key: UPDATE ... WHERE id = pk.
save(st, row) == {r \in st : r.id # row.id} \cup {row}


\* --------------------------------------------------------- Token Issuer
\* RefreshToken.for_user(user): a refresh token for the user's id, with a
\* fresh identifier, expiring a refresh lifetime from now.
for_user(u, now, j) ==
    [typ |-> "refresh", uid |-> u.id, jti |-> j, exp |-> now + RefreshLifetime,
     sig |-> "ok"]

\* refresh.access_token: an access token for the same user id, with its own
\* fresh identifier and the access lifetime.
access_token(refresh, now, j) ==
    [typ |-> "access", uid |-> refresh.uid, jti |-> j,
     exp |-> now + AccessLifetime, sig |-> "ok"]

\* Faulty variant: str(refresh) returned in place of str(refresh.access_token).
login_token_refresh(refresh, access) == refresh

\* The token LoginUserView.post puts in its response body.
login_token(refresh, access) == access

\* A token altered or built without the signing key.
Forged(t) == [t EXCEPT !.sig = "bad"]

\* What the issuer accepts as currently valid: well formed, correctly signed,
\* an access token, not expired, naming a user the store holds.
TokenValid(t, now, st) ==
    /\ t.typ = "access"
    /\ t.sig = "ok"
    /\ t.exp > now
    /\ \E r \in st : r.id = t.uid

\* The issuer's authenticator in front of every view: no credentials leave
\* the request anonymous, an unacceptable token fails the request, an
\* accepted one yields its user.
authenticate(t, now, st) ==
    IF t = NoToken THEN "anonymous"
    ELSE IF TokenValid(t, now, st) THEN "user"
    ELSE "failed"

\* --------------------------------------------------------------- the views
\* Faulty variant: the e-mail is not checked.
RegisterFieldsMissing_no_email(u, p, e) == Falsy(u) \/ Falsy(p)

\* RegisterUserView.post, line 19.
RegisterFieldsMissing(u, p, e) == Falsy(u) \/ Falsy(p) \/ Falsy(e)

\* LoginUserView.post, line 40.
LoginFieldsMissing(u, p) == Falsy(u) \/ Falsy(p)

\* Faulty variant: the password is not verified.
LoginRejected_no_password(usr, p) == usr = NoUser

\* LoginUserView.post, line 46: `not user or not user.check_password(password)`.
LoginRejected(usr, p) == usr = NoUser \/ ~check_password(p, usr.password)

\* Faulty variant: an unknown name is reported as such.
LoginFailure_revealing(usr, p) ==
    IF usr = NoUser THEN Response(404, "User not found")
    ELSE Response(400, "Invalid credentials")

\* LoginUserView.post, line 47: one response for both causes of rejection.
LoginFailure(usr, p) == Response(400, "Invalid credentials")

\* Faulty variant: permission_classes = [AllowAny].
has_permission_allow_any(who) == TRUE

\* SecureApiView.permission_classes = [IsAuthenticated].
has_permission(who) == who = "user"

\* SecureApiView.get: the handler body.
SecureBody == Response(200, "You have access to this secure endpoint!")

\* The response of a request the authenticator or the permission rejected.
Unauthorized == Response(401, "authentication failure")

\* The tokens a client can present: none, a malformed string, a token some
\* login returned, or a forgery of one.
Issued == {returned[i] : i \in DOMAIN returned}
Presentable == {NoToken, Garbage} \cup Issued \cup {Forged(t) : t \in Issued}

\* ------------------------------------------------------------------- Init
Init ==
    /\ store = {}
    /\ nextId = 1
    /\ clock = 0
    /\ nextJti = 1
    /\ pc = [w \in Workers |-> "idle"]
    /\ req = [w \in Workers |-> NoReq]
    /\ user = [w \in Workers |-> NoUser]
    /\ resp = [w \in Workers |-> NoResp]
    /\ meta = [w \in Workers |-> NoMeta]
    /\ returned = <<>>
    /\ minted = {}
    /\ acked = {}

\* A response leaves as soon as its handler returns: while a worker holds a
\* finished request, sending it is the next thing that happens.
Sending == \E w \in Workers : pc[w] = "done"

\* The next request goes to the first free worker.
Accepts(w) ==
    /\ ~Sending
    /\ pc[w] = "idle"
    /\ \A v \in Workers : v < w => pc[v] # "idle"

Finish(w, r) ==
    /\ pc' = [pc EXCEPT ![w] = "done"]
    /\ resp' = [resp EXCEPT ![w] = r]

\* ------------------------------------------------- RegisterUserView.post
\* Lines 15-20: read the three fields, reject a request that lacks one.
RegisterReceive(w, u, p, e) ==
    /\ Accepts(w)
    /\ req' = [req EXCEPT ![w] = [kind |-> "register", username |-> u,
                                  password |-> p, email |-> e, token |-> NoToken]]
    /\ meta' = [meta EXCEPT ![w] = NoMeta]
    /\ IF RegisterFieldsMissing(u, p, e)
       THEN Finish(w, Response(400, "All fields are required"))
       ELSE pc' = [pc EXCEPT ![w] = "check"] /\ UNCHANGED resp
    /\ UNCHANGED <<store, nextId, clock, nextJti, user, returned, minted, acked>>

\* Lines 23-24: the existence query.
RegisterCheck(w) ==
    /\ ~Sending
    /\ pc[w] = "check"
    /\ meta' = [meta EXCEPT ![w].lookups = @ + 1]
    /\ IF exists(store, req[w].username)
       THEN Finish(w, Response(400, "Username already taken"))
       ELSE pc' = [pc EXCEPT ![w] = "create"] /\ UNCHANGED resp
    /\ UNCHANGED <<store, nextId, clock, nextJti, req, user, returned, minted, acked>>

\* Line 27: create_user.  The INSERT either adds the row or raises
\* IntegrityError, which the view does not catch: the request ends in a
\* server error and the store is as before.
RegisterCreate(w) ==
    /\ ~Sending
    /\ pc[w] = "create"
    /\ LET row == new_user(nextId, req[w].username, req[w].password, req[w].email)
       IN IF unique_violation(store, row)
          THEN /\ Finish(w, Response(500, "IntegrityError"))
               /\ UNCHANGED <<store, nextId, user>>
          ELSE /\ store' = store \cup {row}
               /\ nextId' = nextId + 1
               /\ user' = [user EXCEPT ![w] = row]
               /\ pc' = [pc EXCEPT ![w] = "save"]
               /\ UNCHANGED resp
    /\ UNCHANGED <<clock, nextJti, req, meta, returned, minted, acked>>

\* Lines 28-30: user.save() and the success response.
RegisterSave(w) ==
    /\ ~Sending
    /\ pc[w] = "save"
    /\ store' = save(store, user[w])
    /\ Finish(w, Response(201, "User created successfully"))
    /\ UNCHANGED <<nextId, clock, nextJti, req, user, meta, returned, minted, acked>>

\* ---------------------------------------------------- LoginUserView.post
Login(w, u, p) ==
    /\ Accepts(w)
    /\ req' = [req EXCEPT ![w] = [kind |-> "login", username |-> u,
                                  password |-> p, email |-> NONE, token |-> NoToken]]
    /\ IF LoginFieldsMissing(u, p)
       THEN /\ Finish(w, Response(400, "Both username and password are required"))
            /\ meta' = [meta EXCEPT ![w] = NoMeta]
            /\ UNCHANGED <<nextJti, returned, minted>>
       ELSE LET usr == first(store, u)
            IN IF LoginRejected(usr, p)
               THEN /\ Finish(w, LoginFailure(usr, p))
                    /\ meta' = [meta EXCEPT ![w] = [NoMeta EXCEPT !.lookups = 1]]
                    /\ UNCHANGED <<nextJti, returned, minted>>
               ELSE LET refresh == for_user(usr, clock, nextJti)
                        access  == access_token(refresh, clock, nextJti + 1)
                        tok     == login_token(refresh, access)
                    IN /\ Len(returned) < MaxTokens
                       /\ Finish(w, [status |-> 200, body |-> "access_token",
                                     token |-> tok])
                       /\ meta' = [meta EXCEPT ![w] = [NoMeta EXCEPT !.lookups = 1, !.mints = 2]]
                       /\ nextJti' = nextJti + 2
                       /\ returned' = Append(returned, tok)
                       /\ minted' = minted \cup
                            {[token |-> t, username |-> u, password |-> p]
                               : t \in {refresh, access}}
    /\ UNCHANGED <<store, nextId, clock, user, acked>>

\* ------------------------------------------------------ SecureApiView.get
SecureGet(w, t) ==
    /\ Accepts(w)
    /\ t \in Presentable
    /\ req' = [req EXCEPT ![w] = [NoReq EXCEPT !.kind = "secure", !.token = t]]
    /\ LET who == authenticate(t, clock, store)
           admitted == who # "failed" /\ has_permission(who)
       IN /\ Finish(w, IF admitted THEN SecureBody ELSE Unauthorized)
          /\ meta' = [meta EXCEPT ![w] = [NoMeta EXCEPT !.ran = admitted]]
    /\ UNCHANGED <<store, nextId, clock, nextJti, user, returned, minted, acked>>

\* ------------------------------------------------------------ environment
\* Time passes.
Tick ==
    /\ ~Sending
    /\ clock < MaxTime
    /\ clock' = clock + 1
    /\ UNCHANGED <<store, nextId, nextJti, pc, req, user, resp, meta,
                   returned, minted, acked>>

\* The response has been sent; the worker is free again.
Reap(w) ==
    /\ pc[w] = "done"
    /\ pc' = [pc EXCEPT ![w] = "idle"]
    /\ req' = [req EXCEPT ![w] = NoReq]
    /\ user' = [user EXCEPT ![w] = NoUser]
    /\ resp' = [resp EXCEPT ![w] = NoResp]
    /\ meta' = [meta EXCEPT ![w] = NoMeta]
    /\ acked' = IF req[w].kind = "register" /\ resp[w].status = 201
                THEN acked \cup {[username |-> req[w].username,
                                  password |-> req[w].password]}
                ELSE acked
    /\ UNCHANGED <<store, nextId, clock, nextJti, returned, minted>>

Receive(w) ==
    \/ \E u \in Usernames, p \in Passwords, e \in Emails : RegisterReceive(w, u, p, e)
    \/ \E u \in Usernames, p \in Passwords : Login(w, u, p)
    \/ \E t \in Presentable : SecureGet(w, t)

Step(w) ==
    \/ RegisterCheck(w)
    \/ RegisterCreate(w)
    \/ RegisterSave(w)
    \/ Reap(w)

Next ==
    \/ \E w \in Workers : Receive(w)
    \/ \E w \in Workers : Step(w)
    \/ Tick

Spec == Init /\ [][Next]_vars

\* Requests handled one after the other: a request is received only when no
\* other request is in progress.
Quiet == \A w \in Workers : pc[w] \in {"idle", "done"}

SeqNext ==
    \/ \E w \in Workers : Quiet /\ Receive(w)
    \/ \E w \in Workers : Step(w)
    \/ Tick

SeqSpec == Init /\ [][SeqNext]_vars

\* Registrations only, handled concurrently.
RegNext ==
    \/ \E w \in Workers : \E u \in Usernames, p \in Passwords, e \in Emails :
         RegisterReceive(w, u, p, e)
    \/ \E w \in Workers : Step(w)

RegSpec == Init /\ [][RegNext]_vars

\* ===================================================================
\* Properties
\* ===================================================================
\* A field of a request is absent or empty.
Absent(x) == x = NONE \/ x = ""

\* Worker w has just finished a request of kind k; its response is resp[w].
\* Responses leave at once, so the store and the clock are still those the
\* handler's last step saw.
Done(w, k) == pc[w] = "done" /\ req[w].kind = k

Complete(r) == ~Absent(r.username) /\ ~Absent(r.password) /\ ~Absent(r.email)

ValidationError == Response(400, "All fields are required")
ConflictError   == Response(400, "Username already taken")
Created         == Response(201, "User created successfully")
AuthenticationError == Response(400, "Invalid credentials")

RowsNamed(n) == {r \in store : r.username = n}

\* The names that clients have registered (their registration got 201).
AckedNames == {g.username : g \in acked}

\* ------------------------------------------------------------------ C1
\* C1: in every reachable state no two Credential Records share a name,
\* whatever the interleaving of the registrations' check and create steps.
C1_UniqueNames ==
    \A r, q \in store : r.username = q.username => r = q

\* Two registrations of "alice" both passed the existence check; one row was
\* created and the other INSERT was refused.
C1_Witness ==
    /\ Cardinality(store) = 2
    /\ \E w \in Workers :
         /\ Done(w, "register")
         /\ req[w].username = "alice"
         /\ resp[w].status = 500

\* ------------------------------------------------------------------ C2
\* C2: a login with both fields present gets the same response, status 400
\* and body "Invalid credentials", whether the name is unknown to the store
\* or the name is registered and the secret does not match.
UnknownName(w) == RowsNamed(req[w].username) = {}
WrongSecret(w) ==
    \E r \in RowsNamed(req[w].username) : r.password # make_password(req[w].password)

C2_SameFailure ==
    \A w \in Workers :
      /\ Done(w, "login")
      /\ ~Absent(req[w].username) /\ ~Absent(req[w].password)
      /\ UnknownName(w) \/ WrongSecret(w)
      => resp[w] = AuthenticationError

\* A registered name, a secret that is not the stored one.
C2_Witness ==
    \E w \in Workers :
      /\ Done(w, "login")
      /\ req[w].username = "alice" /\ req[w].password = "wrong"
      /\ WrongSecret(w)
      /\ resp[w].status = 400

\* ------------------------------------------------------------------ C3
\* C3: a registration with username, password or email absent or empty is
\* answered 400 "All fields are required" and leaves the Credential Store
\* as it was, whatever the store holds.
C3_MissingFieldRejected ==
    [][\A w \in Workers :
         /\ pc[w] = "idle" /\ pc'[w] # "idle"
         /\ req'[w].kind = "register"
         /\ ~Complete(req'[w])
         => /\ pc'[w] = "done"
            /\ resp'[w] = ValidationError
            /\ store' = store]_vars

\* The name is already in the store and the request lacks only its e-mail.
C3_Witness ==
    \E w \in Workers :
      /\ Done(w, "register")
      /\ req[w].username = "alice" /\ req[w].password = "pw1"
      /\ req[w].email = NONE
      /\ RowsNamed("alice") # {}
      /\ resp[w] = ValidationError

\* ------------------------------------------------------------------ C4
\* C4: when complete registrations run one after the other, a registration
\* of a name the store does not hold succeeds with 201 and stores one record
\* with its secret and contact, and a later registration of that name is
\* answered 400 "Username already taken", the store holding exactly one
\* record for the name.  (Records never change, so that record still holds
\* the first request's secret and contact.)
C4_SecondRegistrationConflicts ==
    \A w \in Workers :
      Done(w, "register") /\ Complete(req[w]) =>
        LET name == req[w].username
        IN IF name \notin AckedNames
           THEN (\A r \in store \ {user[w]} :
                    r.username \notin {name, normalize_username(name)})
                => /\ resp[w] = Created
                   /\ user[w] \in store
                   /\ check_password(req[w].password, user[w].password)
                   /\ user[w].email = normalize_email(req[w].email)
           ELSE /\ resp[w] = ConflictError
                /\ Cardinality(RowsNamed(name)) = 1

\* ------------------------------------------------------------------ C5
\* C5: the body of SecureApiView.get runs only for a request whose token the
\* issuer accepts as currently valid; a request with no token, a malformed
\* token or an expired token is rejected and never gets the confirmation.
C5_GuardedBody ==
    \A w \in Workers :
      Done(w, "secure") =>
        /\ meta[w].ran => TokenValid(req[w].token, clock, store)
        /\ resp[w] = SecureBody => meta[w].ran
        /\ ~TokenValid(req[w].token, clock, store) =>
             /\ resp[w].status = 401
             /\ resp[w].body # SecureBody.body

\* A token a login returned, presented after it expired.
C5_Witness ==
    \E w \in Workers :
      /\ Done(w, "secure")
      /\ req[w].token \in Issued
      /\ req[w].token.exp <= clock
      /\ resp[w].status = 401
      /\ ~meta[w].ran

\* ------------------------------------------------------------------ C6
\* C6: a token returned by a successful login, presented to the guarded
\* endpoint before it expires, is admitted: status 200 and the fixed
\* confirmation payload.
C6_IssuedTokenAdmitted ==
    \A w \in Workers :
      /\ Done(w, "secure")
      /\ req[w].token \in Issued
      /\ clock < req[w].token.exp
      => /\ resp[w] = Response(200, "You have access to this secure endpoint!")
         /\ meta[w].ran

\* The scenario's end: alice registered with pw1, a login returned T for her
\* record, and the guarded request with T got the confirmation.
C6_Witness ==
    \E w \in Workers :
      /\ Done(w, "secure")
      /\ req[w].token \in Issued
      /\ \E r \in RowsNamed("alice") :
           /\ check_password("pw1", r.password)
           /\ req[w].token.uid = r.id
      /\ [username |-> "alice", password |-> "pw1"] \in acked
      /\ resp[w].status = 200

\* ------------------------------------------------------------------ C7
\* C7: a login with a registered name and its correct secret returns 200
\* with an access token, and no token is returned twice.  A registered name
\* is one a registration was answered 201 for, its correct secret the one
\* that registration gave; a name a stored record holds, with the secret
\* that record verifies, is covered as well.
C7_RegisteredLoginGetsFreshToken ==
    /\ \A w \in Workers :
         /\ Done(w, "login")
         /\ [username |-> req[w].username, password |-> req[w].password] \in acked
         => /\ resp[w].status = 200
            /\ resp[w].token.typ = "access"
    /\ \A w \in Workers :
         Done(w, "login") =>
           \A r \in RowsNamed(req[w].username) :
             check_password(req[w].password, r.password) =>
               /\ resp[w].status = 200
               /\ resp[w].token.typ = "access"
               /\ resp[w].token.uid = r.id
    /\ \A i, j \in DOMAIN returned : i # j => returned[i] # returned[j]

\* ------------------------------------------------------------------ C8
\* C8: records are never mutated or deleted; the store changes only by a
\* registration adding one new record, and that registration succeeds; a
\* request that fails, a login and a guarded request add nothing.
C8_StoreFrame ==
    /\ [][/\ store \subseteq store'
          /\ store' # store =>
               /\ Cardinality(store') = Cardinality(store) + 1
               /\ \E w \in Workers :
                    /\ req[w].kind = "register"
                    /\ pc[w] = "create" /\ pc'[w] = "save"
                    /\ store' = store \cup {user'[w]}]_vars
    /\ [](\A w \in Workers :
            /\ pc[w] = "done" /\ resp[w] # Created => user[w] = NoUser
            /\ pc[w] \in {"save", "done"} /\ user[w] # NoUser => user[w] \in store
            /\ pc[w] = "done" /\ resp[w] = Created => user[w] \in store)

\* A failing registration, a second record already stored.
C8_Witness ==
    /\ Cardinality(store) = 2
    /\ \E w \in Workers : Done(w, "register") /\ resp[w] = ConflictError

\* ------------------------------------------------------------------ C9
\* C9: of two complete registrations of the same name handled concurrently,
\* one is answered 201 and the other 400 "Username already taken"; none
\* ends any other way.
InProgress(v) == pc[v] \in {"check", "create", "save"}

C9_ConcurrentLoserConflicts ==
    \A w, v \in Workers :
      /\ w # v
      /\ Done(w, "register") /\ Complete(req[w])
      /\ InProgress(v) /\ req[v].username = req[w].username
      => /\ resp[w] \in {Created, ConflictError}
         /\ resp[w] = Created => pc[v] # "save"

\* ------------------------------------------------------------------ C10
\* C10: tokens are minted on the successful login path only.  Every minted
\* token names a record of the store whose name and secret are those the
\* login supplied; a login lacking a field is answered before any store
\* lookup; no failing request and no registration mints.
C10_MintOnlyOnSuccess ==
    /\ \A m \in minted :
         \E r \in store :
           /\ r.id = m.token.uid
           /\ r.username = m.username
           /\ check_password(m.password, r.password)
    /\ Cardinality(minted) = 2 * Len(returned)
    /\ \A w \in Workers :
         /\ Done(w, "login") /\ (Absent(req[w].username) \/ Absent(req[w].password))
              => /\ resp[w] = Response(400, "Both username and password are required")
                 /\ meta[w].lookups = 0
         /\ pc[w] = "done" /\ resp[w].status # 200 => meta[w].mints = 0
         /\ pc[w] = "done" /\ req[w].kind # "login" => meta[w].mints = 0
         /\ InProgress(w) => meta[w].mints = 0

\* A token has been minted and a later login with the wrong secret fails.
C10_Witness ==
    /\ minted # {}
    /\ \E w \in Workers :
         /\ Done(w, "login")
         /\ resp[w] = AuthenticationError
         /\ RowsNamed(req[w].username) # {}

=============================================================================
